---------------------------- MODULE Spec2Model ----------------------------
(***************************************************************************)
(* A model of app.py, the salary and income-tax projector: the helpers     *)
(* (parse_scale, load_all_ranges, calculate_increment_from_scales,         *)
(* get_da_rate_for_month, compute_income_tax_new_regime) as operators and  *)
(* process_salary_form as a state machine that walks the twelve months.    *)
(*                                                                         *)
(* Numbers.  The program computes in Python floats.  The model computes    *)
(* in exact decimals: an amount is [w |-> whole rupees, f |-> fraction],   *)
(* the fraction counted in 1/Scale of a rupee, 0 <= f < Scale.  Every      *)
(* amount the modelled inputs can produce is a multiple of 1/Scale rupee   *)
(* (inputs have at most two decimals; 0.5 * gross has three, a slab tax    *)
(* on it has five, and its cess has five).  TLC's integers are 32 bits     *)
(* wide, which is why an amount is two numbers and not one.  What the      *)
(* model cannot tell from exact decimals is which way round(x, 2) goes     *)
(* when x is exactly halfway between two paise: the float product is a     *)
(* hair above or below, so there the model allows both results.            *)
(*                                                                         *)
(* Text.  A string is a sequence of one-character strings, so that split,  *)
(* strip, upper, slicing and number parsing are computed, not assumed.     *)
(***************************************************************************)
EXTENDS Integers, Sequences, FiniteSets, TLC

(***************************************************************************)
(* Amounts                                                                 *)
(***************************************************************************)
Scale == 100000

Norm(w, f) == [w |-> w + (f \div Scale), f |-> f % Scale]

Rs(n) == [w |-> n, f |-> 0]

Zero == Rs(0)

Add(a, b) == Norm(a.w + b.w, a.f + b.f)

Sub(a, b) == Norm(a.w - b.w, a.f - b.f)

Lt(a, b) == a.w < b.w \/ (a.w = b.w /\ a.f < b.f)

Le(a, b) == a.w < b.w \/ (a.w = b.w /\ a.f <= b.f)

\* Python's max(a, b) and min(a, b): the first argument wins a draw.
Max(a, b) == IF Lt(a, b) THEN b ELSE a

Min(a, b) == IF Lt(b, a) THEN b ELSE a

\* a * num / den for a rate num/den with den dividing Scale: the product
\* rounded down to 1/Scale rupee, and what was cut off (in 1/(den*Scale)).
MulRatio(a, num, den) ==
    LET wp == a.w * num
        fp == a.f * num
    IN  [val |-> Norm(wp \div den,
                      ((wp % den) * (Scale \div den)) + (fp \div den)),
         cut |-> fp % den]

\* a * num / den where the product is a multiple of 1/Scale rupee
Times(a, num, den) == MulRatio(a, num, den).val

\* round(a * num / den, 2): the nearest paisa.  When the exact product is
\* halfway between two paise the float product lies a hair to one side;
\* halfway ("down" or "up") says to which.
PaisaUnits == Scale \div 100

Round2(a, num, den, halfway) ==
    LET p    == MulRatio(a, num, den)
        low  == Norm(p.val.w, p.val.f - (p.val.f % PaisaUnits))
        high == Add(low, [w |-> 0, f |-> PaisaUnits])
        r    == p.val.f % PaisaUnits
        half == PaisaUnits \div 2
    IN  IF r > half \/ (r = half /\ p.cut > 0) THEN high
        ELSE IF r < half THEN low
        ELSE IF halfway = "up" THEN high ELSE low

(***************************************************************************)
(* Text                                                                    *)
(***************************************************************************)
LowerCase == <<"a","b","c","d","e","f","g","h","i","j","k","l","m",
               "n","o","p","q","r","s","t","u","v","w","x","y","z">>

UpperCase == <<"A","B","C","D","E","F","G","H","I","J","K","L","M",
               "N","O","P","Q","R","S","T","U","V","W","X","Y","Z">>

DigitChars == <<"0","1","2","3","4","5","6","7","8","9">>

IsDigit(c) == \E i \in 1..10 : DigitChars[i] = c

DigitValue(c) == (CHOOSE i \in 1..10 : DigitChars[i] = c) - 1

UpperChar(c) ==
    IF \E i \in 1..26 : LowerCase[i] = c
    THEN UpperCase[CHOOSE i \in 1..26 : LowerCase[i] = c]
    ELSE c

\* str.upper()
Upper(s) == [i \in 1..Len(s) |-> UpperChar(s[i])]

\* str.strip(): leading and trailing blanks removed
Strip(s) ==
    LET inked == {i \in 1..Len(s) : s[i] # " "}
    IN  IF inked = {} THEN <<>>
        ELSE SubSeq(s, CHOOSE i \in inked : \A j \in inked : i <= j,
                       CHOOSE i \in inked : \A j \in inked : j <= i)

\* s[:n]
Prefix(s, n) == SubSeq(s, 1, IF Len(s) < n THEN Len(s) ELSE n)

\* the places of character c in s
Places(s, c) == {i \in 1..Len(s) : s[i] = c}

\* str.split(c): the parts between the occurrences of c, in order
RECURSIVE Split(_, _)
Split(s, c) ==
    IF Places(s, c) = {} THEN <<s>>
    ELSE LET k == CHOOSE i \in Places(s, c) : \A j \in Places(s, c) : i <= j
         IN  <<SubSeq(s, 1, k - 1)>> \o Split(SubSeq(s, k + 1, Len(s)), c)

\* the number a sequence of digits writes
RECURSIVE ParseNat(_)
ParseNat(s) ==
    IF s = <<>> THEN 0
    ELSE 10 * ParseNat(SubSeq(s, 1, Len(s) - 1)) + DigitValue(s[Len(s)])

AllDigits(s) == \A i \in 1..Len(s) : IsDigit(s[i])

\* the digits after the point as a fraction in 1/Scale (five digits kept)
FractionOf(s) ==
    LET five == [i \in 1..5 |-> IF i <= Len(s) THEN s[i] ELSE "0"]
    IN  ParseNat(five)

\* float(text) for text made of digits, points, blanks and other characters:
\* [ok |-> FALSE] stands for the ValueError.
Float(text) ==
    LET s    == Strip(text)
        dots == Places(s, ".")
        k    == IF dots = {} THEN Len(s) + 1 ELSE CHOOSE i \in dots : TRUE
        int  == SubSeq(s, 1, k - 1)
        frac == SubSeq(s, k + 1, Len(s))
    IN  IF Cardinality(dots) <= 1 /\ AllDigits(int) /\ AllDigits(frac)
           /\ Len(int) + Len(frac) > 0
        THEN [ok |-> TRUE, val |-> [w |-> ParseNat(int), f |-> FractionOf(frac)]]
        ELSE [ok |-> FALSE, val |-> Zero]

(***************************************************************************)
(* Months and dates                                                        *)
(***************************************************************************)
MonthAbbr == << <<"J","a","n">>, <<"F","e","b">>, <<"M","a","r">>,
                <<"A","p","r">>, <<"M","a","y">>, <<"J","u","n">>,
                <<"J","u","l">>, <<"A","u","g">>, <<"S","e","p">>,
                <<"O","c","t">>, <<"N","o","v">>, <<"D","e","c">> >>

\* a year as four digits
Digits4(y) == << DigitChars[((y \div 1000) % 10) + 1],
                 DigitChars[((y \div 100) % 10) + 1],
                 DigitChars[((y \div 10) % 10) + 1],
                 DigitChars[(y % 10) + 1] >>

\* datetime.strftime("%b-%Y") of the datetime <<year, month>>
strftime(dt) == MonthAbbr[dt[2]] \o <<"-">> \o Digits4(dt[1])

\* datetime.strptime(text, "%b-%Y"): an abbreviated month name in any case,
\* a dash, four digits.  [ok |-> FALSE] stands for the ValueError.
UpperMonthAbbr == [i \in 1..12 |-> Upper(MonthAbbr[i])]

strptime(text) ==
    LET parts == Split(text, "-")
        name  == Upper(parts[1])
    IN  IF Len(parts) = 2
           /\ (\E i \in 1..12 : UpperMonthAbbr[i] = name)
           /\ Len(parts[2]) = 4 /\ AllDigits(parts[2])
        THEN [ok |-> TRUE,
              dt |-> << ParseNat(parts[2]),
                        CHOOSE i \in 1..12 : UpperMonthAbbr[i] = name >>]
        ELSE [ok |-> FALSE, dt |-> <<0, 0>>]

\* datetime >= datetime
DtGe(a, b) == a[1] > b[1] \/ (a[1] = b[1] /\ a[2] >= b[2])

MONTHS == << strftime(<<2025, 3>>), strftime(<<2025, 4>>), strftime(<<2025, 5>>),
             strftime(<<2025, 6>>), strftime(<<2025, 7>>), strftime(<<2025, 8>>),
             strftime(<<2025, 9>>), strftime(<<2025, 10>>), strftime(<<2025, 11>>),
             strftime(<<2025, 12>>), strftime(<<2026, 1>>), strftime(<<2026, 2>>) >>

\* parse_month of process_salary_form.  none: the result is None;
\* ok = FALSE: a ValueError (no dash to split at, or strptime's).
parse_month(m_raw) ==
    IF m_raw = <<>> THEN [ok |-> TRUE, none |-> TRUE, val |-> <<>>]
    ELSE IF Places(m_raw, "-") = {} THEN [ok |-> FALSE, none |-> FALSE, val |-> <<>>]
    ELSE LET k  == CHOOSE i \in Places(m_raw, "-") : \A j \in Places(m_raw, "-") : i <= j
             m  == SubSeq(m_raw, 1, k - 1)
             y  == SubSeq(m_raw, k + 1, Len(m_raw))
             dt == strptime(Prefix(m, 3) \o <<"-">> \o y)
         IN  IF dt.ok THEN [ok |-> TRUE, none |-> FALSE, val |-> strftime(dt.dt)]
             ELSE [ok |-> FALSE, none |-> FALSE, val |-> <<>>]

(***************************************************************************)
(* Configuration.  Rates are counted in 1/RateDen, tax rates in percent.   *)
(***************************************************************************)
RateDen == 10000

DA_RATES == << << strftime(<<2025, 3>>), 1275 >>, << strftime(<<2025, 7>>), 1475 >> >>

HRA_RATES == << << <<"A">>, 2000 >>, << <<"B">>, 1500 >>, << <<"C">>, 750 >> >>

CCA_AMOUNT == 600

MEDICAL_AMOUNT == 500

\* (lower, upper, pct); inf marks math.inf
TAX_SLABS == <<
    [lower |-> 0,       upper |-> 400000,  inf |-> FALSE, pct |-> 0],
    [lower |-> 400000,  upper |-> 800000,  inf |-> FALSE, pct |-> 5],
    [lower |-> 800000,  upper |-> 1200000, inf |-> FALSE, pct |-> 10],
    [lower |-> 1200000, upper |-> 1600000, inf |-> FALSE, pct |-> 15],
    [lower |-> 1600000, upper |-> 2000000, inf |-> FALSE, pct |-> 20],
    [lower |-> 2000000, upper |-> 2400000, inf |-> FALSE, pct |-> 25],
    [lower |-> 2400000, upper |-> 0,       inf |-> TRUE,  pct |-> 30] >>

STANDARD_DEDUCTION == 75000

REBATE_87A == 75000

(***************************************************************************)
(* get_da_rate_for_month                                                   *)
(***************************************************************************)
\* sorted(items, key = the date): the earliest first, stable
RECURSIVE SortedByDate(_)
SortedByDate(items) ==
    IF items = <<>> THEN <<>>
    ELSE LET first == CHOOSE i \in 1..Len(items) :
                        \A j \in 1..Len(items) :
                            \/ ~DtGe(items[i][1], items[j][1])
                            \/ (DtGe(items[j][1], items[i][1]) /\ i <= j)
             rest  == [j \in 1..(Len(items) - 1) |->
                          IF j < first THEN items[j] ELSE items[j + 1]]
         IN  <<items[first]>> \o SortedByDate(rest)

\* DaLoop with "month_dt > dt" for the test
RECURSIVE DaLoopStrict(_, _, _, _)
DaLoopStrict(items, i, month_dt, applicable) ==
    IF i > Len(items) THEN applicable
    ELSE IF DtGe(month_dt, items[i][1]) /\ month_dt # items[i][1]
         THEN DaLoopStrict(items, i + 1, month_dt, items[i][2])
         ELSE applicable

\* the for loop of get_da_rate_for_month from item i on
RECURSIVE DaLoop(_, _, _, _)
DaLoop(items, i, month_dt, applicable) ==
    IF i > Len(items) THEN applicable
    ELSE IF DtGe(month_dt, items[i][1])
         THEN DaLoop(items, i + 1, month_dt, items[i][2])
         ELSE applicable

\* "items = sorted([(strptime(k), v) for k, v in DA_RATES.items()], ...)"
DaItems ==
    SortedByDate([i \in 1..Len(DA_RATES) |->
                     << strptime(DA_RATES[i][1]).dt, DA_RATES[i][2] >>])

get_da_rate_for_month(month_str) ==
    DaLoop(DaItems, 1, strptime(month_str).dt, 0)

(***************************************************************************)
(* compute_income_tax_new_regime                                           *)
(***************************************************************************)
\* the for loop over TAX_SLABS from slab i on
RECURSIVE SlabLoop(_, _, _)
SlabLoop(taxable, i, tax) ==
    IF i > Len(TAX_SLABS) THEN tax
    ELSE LET slab  == TAX_SLABS[i]
             lower == Rs(slab.lower)
             top   == IF slab.inf THEN taxable ELSE Min(taxable, Rs(slab.upper))
             taxable_slice == Sub(top, lower)
         IN  IF Le(taxable, lower) THEN tax
             ELSE SlabLoop(taxable, i + 1,
                           IF Lt(Zero, taxable_slice)
                           THEN Add(tax, Times(taxable_slice, slab.pct, 100))
                           ELSE tax)

\* RebateFor with "taxable < 1275000" for the test
RebateBelowLimit(taxable, tax) ==
    IF Lt(taxable, Rs(1275000)) THEN Min(Rs(REBATE_87A), tax) ELSE Zero

RebateFor(taxable, tax) ==
    IF Le(taxable, Rs(1275000)) THEN Min(Rs(REBATE_87A), tax) ELSE Zero

\* compute_income_tax_new_regime without the floor of the taxable income at 0
TaxWithoutFloor(annual_gross) ==
    LET taxable == Sub(annual_gross, Rs(STANDARD_DEDUCTION))
        tax     == SlabLoop(taxable, 1, Zero)
        rebate  == RebateFor(taxable, tax)
        tax_after_rebate == Max(Zero, Sub(tax, rebate))
        cess    == Times(tax_after_rebate, 4, 100)
    IN  [taxable_income      |-> taxable,
         tax_before_rebate   |-> tax,
         rebate_applied      |-> rebate,
         tax_after_rebate    |-> tax_after_rebate,
         cess                |-> cess,
         total_tax_liability |-> Add(tax_after_rebate, cess)]

compute_income_tax_new_regime(annual_gross) ==
    LET taxable == Max(Zero, Sub(annual_gross, Rs(STANDARD_DEDUCTION)))
        tax     == SlabLoop(taxable, 1, Zero)
        rebate  == RebateFor(taxable, tax)
        tax_after_rebate == Max(Zero, Sub(tax, rebate))
        cess    == Times(tax_after_rebate, 4, 100)
    IN  [taxable_income      |-> taxable,
         tax_before_rebate   |-> tax,
         rebate_applied      |-> rebate,
         tax_after_rebate    |-> tax_after_rebate,
         cess                |-> cess,
         total_tax_liability |-> Add(tax_after_rebate, cess)]

(***************************************************************************)
(* The scale table                                                         *)
(***************************************************************************)
\* parse_scale: [ok |-> FALSE] stands for the ValueError (of float() or of
\* the length test); a range is <<start, end, increment>>.
parse_scale(scale_str) ==
    LET parts   == Split(scale_str, "-")
        numbers == [i \in 1..Len(parts) |-> Float(parts[i])]
        n       == Len(parts)
    IN  IF (\E i \in 1..n : ~numbers[i].ok) \/ n < 3 \/ n % 2 = 0
        THEN [ok |-> FALSE, ranges |-> <<>>]
        ELSE [ok |-> TRUE,
              ranges |-> [i \in 1..(n \div 2) |->
                             << numbers[2 * i - 1].val,
                                numbers[2 * i + 1].val,
                                numbers[2 * i].val >>]]

\* Series.dropna(): the cells that hold something
RECURSIVE dropna(_)
dropna(cells) ==
    IF cells = <<>> THEN <<>>
    ELSE IF cells[1].nan THEN dropna(Tail(cells))
         ELSE <<cells[1].text>> \o dropna(Tail(cells))

\* load_all_ranges on a sheet [ncols, col0]: df[0] of a sheet without
\* columns is a KeyError, a scale string parse_scale refuses a ValueError.
load_all_ranges(sheet) ==
    IF sheet.ncols = 0 THEN [ok |-> FALSE, error |-> "KeyError", ranges |-> <<>>]
    ELSE LET scales == dropna(sheet.col0)
             parsed == [i \in 1..Len(scales) |-> parse_scale(Strip(scales[i]))]
         IN  IF \E i \in 1..Len(scales) : ~parsed[i].ok
             THEN [ok |-> FALSE, error |-> "ValueError", ranges |-> <<>>]
             ELSE [ok |-> TRUE, error |-> "",
                   ranges |-> [i \in 1..Len(scales) |-> parsed[i].ranges]]

\* RangeLoop with "start <= salary <= end" for the test
RECURSIVE RangeLoopInclusive(_, _, _)
RangeLoopInclusive(salary, grade_ranges, j) ==
    IF j > Len(grade_ranges) THEN 0
    ELSE IF Le(grade_ranges[j][1], salary) /\ Le(salary, grade_ranges[j][2])
         THEN j
         ELSE RangeLoopInclusive(salary, grade_ranges, j + 1)

\* the inner for loop: the first range of the row from range j on that
\* holds the salary, 0 when none does
RECURSIVE RangeLoop(_, _, _)
RangeLoop(salary, grade_ranges, j) ==
    IF j > Len(grade_ranges) THEN 0
    ELSE IF Le(grade_ranges[j][1], salary) /\ Lt(salary, grade_ranges[j][2])
         THEN j
         ELSE RangeLoop(salary, grade_ranges, j + 1)

\* the outer for loop from row row_idx on; row 0 stands for None
RECURSIVE RowLoop(_, _, _)
RowLoop(salary, all_ranges, row_idx) ==
    IF row_idx > Len(all_ranges) THEN [salary |-> salary, row |-> 0]
    ELSE LET j == RangeLoop(salary, all_ranges[row_idx], 1)
         IN  IF j > 0
             THEN [salary |-> Add(salary, all_ranges[row_idx][j][3]), row |-> row_idx]
             ELSE RowLoop(salary, all_ranges, row_idx + 1)

\* calculate_increment_from_scales with "return increment, row_idx"
IncrementAlone(salary, all_ranges) ==
    LET found == RowLoop(salary, all_ranges, 1)
    IN  IF found.row = 0 THEN found
        ELSE [salary |-> Sub(found.salary, salary), row |-> found.row]

calculate_increment_from_scales(salary, all_ranges) == RowLoop(salary, all_ranges, 1)

(***************************************************************************)
(* One month of process_salary_form                                        *)
(***************************************************************************)
\* dict.get(key, default) on a list of <<key, value>> pairs
DictGet(dict, key, default) ==
    IF \E i \in 1..Len(dict) : dict[i][1] = key
    THEN dict[CHOOSE i \in 1..Len(dict) : dict[i][1] = key][2]
    ELSE default

\* "if target and month == target: current_basic, _ = calculate_...(...)"
\* for a parse_month result target
ApplyIncrement(current_basic, month, target, all_ranges) ==
    IF ~target.none /\ target.val # <<>> /\ month = target.val
    THEN calculate_increment_from_scales(current_basic, all_ranges).salary
    ELSE current_basic

\* BasicOfMonth with both increments computed from the basic carried in
BasicOfMonthFromCarried(current_basic, month, increment_month, timebond_from_month, all_ranges) ==
    IF ~timebond_from_month.none /\ month = timebond_from_month.val
    THEN ApplyIncrement(current_basic, month, timebond_from_month, all_ranges)
    ELSE ApplyIncrement(current_basic, month, increment_month, all_ranges)

\* the basic of a month: the regular increment, then the time-bound one
BasicOfMonth(current_basic, month, increment_month, timebond_from_month, all_ranges) ==
    ApplyIncrement(
        ApplyIncrement(current_basic, month, increment_month, all_ranges),
        month, timebond_from_month, all_ranges)

DaOf(current_basic, month, halfway) ==
    Round2(current_basic, get_da_rate_for_month(month), RateDen, halfway)

HraOf(current_basic, city_grade, halfway) ==
    Round2(current_basic, DictGet(HRA_RATES, city_grade, 0), RateDen, halfway)

CcaOf(city_grade) ==
    IF city_grade \in {<<"A">>, <<"B">>} THEN Rs(CCA_AMOUNT) ELSE Zero

MedicalOf(group) ==
    IF group \in {<<"A">>, <<"B">>} THEN Zero ELSE Rs(MEDICAL_AMOUNT)

\* GrossOf with the medical allowance left out
GrossWithoutMedical(current_basic, da, hra, cca, medical) ==
    Add(Add(Add(current_basic, da), hra), cca)

GrossOf(current_basic, da, hra, cca, medical) ==
    Add(Add(Add(Add(current_basic, da), hra), cca), medical)

\* the row the loop body appends for a month
RowOfMonth(month, current_basic, city_grade, group, halfway) ==
    LET da      == DaOf(current_basic, month, halfway)
        hra     == HraOf(current_basic, city_grade, halfway)
        cca     == CcaOf(city_grade)
        medical == MedicalOf(group)
    IN  [Month |-> month, Basic |-> current_basic, DA |-> da, HRA |-> hra,
         CCA |-> cca, Medical |-> medical,
         Gross |-> GrossOf(current_basic, da, hra, cca, medical)]

\* DataFrame column sum
RECURSIVE ColumnSum(_, _)
ColumnSum(rows, col) ==
    IF rows = <<>> THEN Zero
    ELSE Add(rows[1][col], ColumnSum(Tail(rows), col))

\* EncashmentOf without the test of the flag
EncashmentAlways(leave_encashment, dec_gross) == Times(dec_gross, 1, 2)

\* "if leave_encashment == 'YES': el_encashment_amount = 0.5 * dec_gross"
EncashmentOf(leave_encashment, dec_gross) ==
    IF leave_encashment = <<"Y","E","S">> THEN Times(dec_gross, 1, 2) ELSE Zero

\* request.form.get(key, default): a field is [given, text]
FormGet(field, default) == IF field.given THEN field.text ELSE default

(***************************************************************************)
(* Inputs                                                                  *)
(***************************************************************************)
MaxBasicStep == 2
MaxRows == 2
MaxRanges == 2
MaxTaxStep == 120
MaxHalfPaise == 1
MaxScaleLen == 6

\* a number written in digits
RECURSIVE Digits(_)
Digits(n) == IF n < 10 THEN <<DigitChars[n + 1]>>
             ELSE Digits(n \div 10) \o <<DigitChars[(n % 10) + 1]>>

\* "n1-n2-...": the numbers joined by dashes
RECURSIVE ScaleText(_)
ScaleText(ns) ==
    IF Len(ns) = 1 THEN Digits(ns[1])
    ELSE Digits(ns[1]) \o <<"-">> \o ScaleText(Tail(ns))

Given(text) == [given |-> TRUE, text |-> text]
Absent == [given |-> FALSE, text |-> <<>>]
Cell(text) == [nan |-> FALSE, text |-> text]
EmptyCell == [nan |-> TRUE, text |-> <<>>]

\* salary_scale.xlsx as a request may find it: a proper table (with a
\* blank line and padded cells), sheets with a scale string parse_scale
\* refuses, a sheet whose first column is blank, and a sheet without cells.
GoodSheet ==
    [ncols |-> 1,
     col0  |-> << Cell(ScaleText(<<29000, 500, 30001, 700, 31000>>)),
                  EmptyCell,
                  Cell(<<" ">> \o ScaleText(<<30500, 800, 33000>>) \o <<" ">>) >>]

BlankColumnSheet == [ncols |-> 2, col0 |-> <<EmptyCell, EmptyCell>>]

NoCellsSheet == [ncols |-> 0, col0 |-> <<>>]

MalformedTexts ==
    { ScaleText(<<29000>>),
      ScaleText(<<29000, 500, 30001, 700>>),
      Digits(29000) \o <<"-","x","-">> \o Digits(30001),
      ScaleText(<<29000, 500>>) \o <<"-">> }

MalformedSheets ==
    { [ncols |-> 1,
       col0  |-> << Cell(ScaleText(<<29000, 500, 30001>>)), Cell(t) >>] :
      t \in MalformedTexts }

Sheets == {GoodSheet, BlankColumnSheet, NoCellsSheet} \cup MalformedSheets

BasicTexts ==
    { Digits(30000 + k) : k \in 0..MaxBasicStep }
        \cup { <<"3","0","0","0","0",".","2","5">>, <<"a","b","c">> }

IncrementTexts ==
    { <<>>,
      <<"j","u","l","y","-","2","0","2","5">>,
      <<"D","e","c","-","2","0","2","5">>,
      <<"J","a","n","-","2","0","2","5">>,
      <<"J","u","l","2","0","2","5">> }

TimebondFields ==
    { Absent, Given(<<"J","u","l","-","2","0","2","5">>) }

GradeFields == { Absent, Given(<<"A">>), Given(<<" ","b"," ">>), Given(<<"C">>) }

GroupFields == { Given(<<" ","a">>), Given(<<"C">>) }

LeaveFields == { Absent, Given(<<" ","y","e","s"," ">>), Given(<<"Y">>) }

AllowanceFields == { Absent, Given(<<"1","0","0","0",".","5">>) }

Forms ==
    [ group : GroupFields, city_grade : GradeFields,
      basic_salary : { Given(t) : t \in BasicTexts },
      increment : { Given(t) : t \in IncrementTexts },
      timebondmonth : TimebondFields,
      leave_encashment : LeaveFields, allowance : AllowanceFields ]

\* inputs of the helpers when they are called on their own
RangeChoices ==
    { <<Rs(100), Rs(200), Rs(10)>>, <<Rs(150), Rs(300), Rs(50)>> }

RECURSIVE SeqsUpTo(_, _)
SeqsUpTo(S, n) ==
    IF n = 0 THEN { <<>> }
    ELSE SeqsUpTo(S, n - 1) \cup
         { Append(q, x) : q \in { r \in SeqsUpTo(S, n - 1) : Len(r) = n - 1 }, x \in S }

TableChoices == SeqsUpTo(SeqsUpTo(RangeChoices, MaxRanges), MaxRows)

SalaryChoices == { Rs(50), Rs(100), Rs(150), Rs(200), Rs(260), Rs(300) }

GrossChoices ==
    { Add(Rs(25000 * j), [w |-> 0, f |-> k * (Scale \div 200)]) :
      j \in 0..MaxTaxStep, k \in (0 - MaxHalfPaise)..MaxHalfPaise }

MonthChoices == { strftime(<<y, m>>) : y \in 2024..2026, m \in 1..12 }

\* scale strings: every text of a digit, dashes, a letter and blanks
ScaleAlphabet == { "1", "-", "x", " " }

ScaleTextChoices == SeqsUpTo(ScaleAlphabet, MaxScaleLen)

(***************************************************************************)
(* The state machine                                                       *)
(***************************************************************************)
VARIABLES
    sheet,          \* salary_scale.xlsx as the request reads it
    halfway,        \* the side the float products of the request fall to at an exact half
    pc,             \* "idle", "loop", "done", "error", "called"
    data,           \* the submitted form
    env,            \* the locals process_salary_form sets before the loop
    rows,           \* rows
    current_basic,  \* current_basic
    dec_gross,      \* dec_gross
    result,         \* what process_salary_form returns
    error,          \* the exception that ended the request
    call            \* a helper called on its own: its inputs and result

vars == <<sheet, halfway, pc, data, env, rows, current_basic, dec_gross, result, error, call>>

NoData == [ group |-> Absent, city_grade |-> Absent, basic_salary |-> Absent,
            increment |-> Absent, timebondmonth |-> Absent,
            leave_encashment |-> Absent, allowance |-> Absent ]

NoMonth == [ok |-> TRUE, none |-> TRUE, val |-> <<>>]

NoEnv == [ group |-> <<>>, city_grade |-> <<>>, basic_salary |-> Zero,
           increment_month |-> NoMonth, timebond_from_month |-> NoMonth,
           leave_encashment |-> <<>>, allowance |-> Zero, all_ranges |-> <<>> ]

NoResult == [ annual_basic |-> Zero, annual_da |-> Zero, annual_hra |-> Zero,
              annual_cca |-> Zero, annual_medical |-> Zero, annual_gross |-> Zero,
              el_encashment_amount |-> Zero, annual_gross_with_all |-> Zero,
              tax_summary |-> compute_income_tax_new_regime(Zero) ]

NoCall == [fn |-> "none"]

Init ==
    /\ sheet = NoCellsSheet
    /\ halfway = "down"
    /\ pc = "idle"
    /\ data = NoData
    /\ env = NoEnv
    /\ rows = <<>>
    /\ current_basic = Zero
    /\ dec_gross = Zero
    /\ result = NoResult
    /\ error = ""
    /\ call = NoCall

\* LocalsOf without the upper() of the city grade
LocalsWithoutUpper(form, all_ranges) ==
    [ group               |-> Upper(Strip(FormGet(form.group, <<>>))),
      city_grade          |-> Strip(FormGet(form.city_grade, <<>>)),
      basic_salary        |-> Float(FormGet(form.basic_salary, <<"0">>)).val,
      increment_month     |-> parse_month(Strip(FormGet(form.increment, <<>>))),
      timebond_from_month |-> parse_month(FormGet(form.timebondmonth, <<>>)),
      leave_encashment    |-> Upper(Strip(FormGet(form.leave_encashment, <<"N","O">>))),
      allowance           |-> Float(FormGet(form.allowance, <<"0">>)).val,
      all_ranges          |-> all_ranges ]

\* the locals of process_salary_form up to the loop, for a form whose
\* numbers and months parse and a sheet that loads
LocalsOf(form, all_ranges) ==
    [ group               |-> Upper(Strip(FormGet(form.group, <<>>))),
      city_grade          |-> Upper(Strip(FormGet(form.city_grade, <<>>))),
      basic_salary        |-> Float(FormGet(form.basic_salary, <<"0">>)).val,
      increment_month     |-> parse_month(Strip(FormGet(form.increment, <<>>))),
      timebond_from_month |-> parse_month(FormGet(form.timebondmonth, <<>>)),
      leave_encashment    |-> Upper(Strip(FormGet(form.leave_encashment, <<"N","O">>))),
      allowance           |-> Float(FormGet(form.allowance, <<"0">>)).val,
      all_ranges          |-> all_ranges ]

\* the exception process_salary_form raises before the loop, "" when none
ErrorOf(form, loaded) ==
    IF ~Float(FormGet(form.basic_salary, <<"0">>)).ok THEN "ValueError"
    ELSE IF ~Float(FormGet(form.allowance, <<"0">>)).ok THEN "ValueError"
    ELSE IF ~parse_month(Strip(FormGet(form.increment, <<>>))).ok THEN "ValueError"
    ELSE IF ~parse_month(FormGet(form.timebondmonth, <<>>)).ok THEN "ValueError"
    ELSE IF ~loaded.ok THEN loaded.error
    ELSE ""

\* calculate_salary_route up to the loop of process_salary_form, for any
\* form and any sheet on disk
Request ==
    /\ pc = "idle"
    /\ \E file \in Sheets :
          LET loaded == load_all_ranges(file)
          IN  \E form \in Forms :
                 /\ data' = form
                 /\ sheet' = file
                 /\ IF ErrorOf(form, loaded) # ""
                    THEN /\ pc' = "error"
                         /\ error' = ErrorOf(form, loaded)
                         /\ UNCHANGED <<halfway, env, current_basic>>
                    ELSE /\ pc' = "loop"
                         /\ halfway' \in {"down", "up"}
                         /\ env' = LocalsOf(form, loaded.ranges)
                         /\ current_basic' = env'.basic_salary
                         /\ UNCHANGED error
    /\ UNCHANGED <<rows, dec_gross, result, call>>

\* one turn of "for month in MONTHS"
MonthStep ==
    /\ pc = "loop"
    /\ Len(rows) < Len(MONTHS)
    /\ LET month == MONTHS[Len(rows) + 1]
           basic == BasicOfMonth(current_basic, month, env.increment_month,
                                 env.timebond_from_month, env.all_ranges)
           row   == RowOfMonth(month, basic, env.city_grade, env.group, halfway)
       IN  /\ current_basic' = basic
           /\ dec_gross' = IF month = strftime(<<2025, 12>>) THEN row.Gross ELSE dec_gross
           /\ rows' = Append(rows, row)
    /\ UNCHANGED <<sheet, halfway, pc, data, env, result, error, call>>

\* what process_salary_form computes after the loop
ResultOf(monthly_rows, leave_encashment, allowance, dec) ==
    LET annual_gross == ColumnSum(monthly_rows, "Gross")
        el_encashment_amount == EncashmentOf(leave_encashment, dec)
        annual_gross_with_all == Add(Add(annual_gross, el_encashment_amount), allowance)
    IN  [ annual_basic |-> ColumnSum(monthly_rows, "Basic"),
          annual_da |-> ColumnSum(monthly_rows, "DA"),
          annual_hra |-> ColumnSum(monthly_rows, "HRA"),
          annual_cca |-> ColumnSum(monthly_rows, "CCA"),
          annual_medical |-> ColumnSum(monthly_rows, "Medical"),
          annual_gross |-> annual_gross,
          el_encashment_amount |-> el_encashment_amount,
          annual_gross_with_all |-> annual_gross_with_all,
          tax_summary |-> compute_income_tax_new_regime(annual_gross_with_all) ]

Finish ==
    /\ pc = "loop"
    /\ Len(rows) = Len(MONTHS)
    /\ result' = ResultOf(rows, env.leave_encashment, env.allowance, dec_gross)
    /\ pc' = "done"
    /\ UNCHANGED <<sheet, halfway, data, env, rows, current_basic, dec_gross, error, call>>

\* the helpers called on their own
CallIncrement ==
    /\ pc = "idle"
    /\ \E salary \in SalaryChoices, all_ranges \in TableChoices :
          call' = [fn |-> "calculate_increment_from_scales", salary |-> salary,
                   all_ranges |-> all_ranges,
                   result |-> calculate_increment_from_scales(salary, all_ranges)]
    /\ pc' = "called"
    /\ UNCHANGED <<sheet, halfway, data, env, rows, current_basic, dec_gross, result, error>>

CallTax ==
    /\ pc = "idle"
    /\ \E annual_gross \in GrossChoices :
          call' = [fn |-> "compute_income_tax_new_regime", annual_gross |-> annual_gross,
                   result |-> compute_income_tax_new_regime(annual_gross)]
    /\ pc' = "called"
    /\ UNCHANGED <<sheet, halfway, data, env, rows, current_basic, dec_gross, result, error>>

CallDaRate ==
    /\ pc = "idle"
    /\ \E month_str \in MonthChoices :
          call' = [fn |-> "get_da_rate_for_month", month_str |-> month_str,
                   result |-> get_da_rate_for_month(month_str)]
    /\ pc' = "called"
    /\ UNCHANGED <<sheet, halfway, data, env, rows, current_basic, dec_gross, result, error>>

CallParseScale ==
    /\ pc = "idle"
    /\ \E scale_str \in ScaleTextChoices :
          call' = [fn |-> "parse_scale", scale_str |-> scale_str,
                   result |-> parse_scale(scale_str)]
    /\ pc' = "called"
    /\ UNCHANGED <<sheet, halfway, data, env, rows, current_basic, dec_gross, result, error>>

Next ==
    \/ Request
    \/ MonthStep
    \/ Finish
    \/ CallIncrement
    \/ CallTax
    \/ CallDaRate
    \/ CallParseScale

Spec == Init /\ [][Next]_vars

(***************************************************************************)
(* Properties                                                              *)
(***************************************************************************)
\* amounts counted in whole paise and in half paise
IsPaise(a) == a.f % PaisaUnits = 0
Paise(a) == (a.w * 100) + (a.f \div PaisaUnits)
IsHalfPaise(a) == a.f % (PaisaUnits \div 2) = 0
HalfPaise(a) == (a.w * 200) + (a.f \div (PaisaUnits \div 2))

HalfPaisa == [w |-> 0, f |-> PaisaUnits \div 2]

\* amount is the product basic * rate / RateDen rounded to the nearest paisa
IsRounded(amount, basic, rate) ==
    LET p == MulRatio(basic, rate, RateDen)
    IN  /\ IsPaise(amount)
        /\ Le(Sub(amount, HalfPaisa), p.val)
        /\ \/ Lt(p.val, Add(amount, HalfPaisa))
           \/ (p.val = Add(amount, HalfPaisa) /\ p.cut = 0)

\* amount is the product basic * rate / RateDen itself
IsExact(amount, basic, rate) ==
    LET p == MulRatio(basic, rate, RateDen)
    IN  p.val = amount /\ p.cut = 0

\* The Scale Lookup as the specification words it: the first range, rows in
\* order and ranges within a row in order, with start <= salary < end.
Holds(salary, range) == Le(range[1], salary) /\ Lt(salary, range[2])

HitsOf(salary, table) ==
    { p \in UNION { { <<i, j>> : j \in 1..Len(table[i]) } : i \in 1..Len(table) } :
        Holds(salary, table[p[1]][p[2]]) }

Before(p, q) == p[1] < q[1] \/ (p[1] = q[1] /\ p[2] <= q[2])

ScaleLookup(salary, table) ==
    LET hits == HitsOf(salary, table)
        p    == CHOOSE h \in hits : \A q \in hits : Before(h, q)
    IN  IF hits = {} THEN [salary |-> salary, row |-> 0]
        ELSE [salary |-> Add(salary, table[p[1]][p[2]][3]), row |-> p[1]]

InLoop == pc \in {"loop", "done"}

\* C1: calculate_increment_from_scales returns the salary plus the increment
\* of the first range (rows in order, ranges of a row in order) with
\* start <= salary < end, and the salary unchanged with row None when no
\* range holds it.
C1_FirstMatchingRange ==
    call.fn = "calculate_increment_from_scales" =>
        call.result = ScaleLookup(call.salary, call.all_ranges)

\* a call where the first hit is in the second row and a later range holds
\* the salary too, with another increment
C1_Witness ==
    /\ call.fn = "calculate_increment_from_scales"
    /\ call.result.row = 2
    /\ Cardinality(HitsOf(call.salary, call.all_ranges)) >= 2
    /\ \E p \in HitsOf(call.salary, call.all_ranges) :
          Add(call.salary, call.all_ranges[p[1]][p[2]][3]) # call.result.salary

\* a form whose numbers and months parse
FormParses(form) == ErrorOf(form, [ok |-> TRUE, error |-> "", ranges |-> <<>>]) = ""

\* C2: with malformed or empty scale data (a scale string of fewer than 3
\* numbers, of an even count of numbers, with a non-numeric part, or a sheet
\* without scale rows) the projection does not fail: the table falls back to
\* a single catch-all range and the run ends with twelve rows.
C2_FallsBackToDefaultRange ==
    (/\ pc \in {"loop", "done", "error"}
     /\ sheet \in MalformedSheets \cup {BlankColumnSheet, NoCellsSheet}
     /\ FormParses(data))
    => /\ pc # "error"
       /\ Len(env.all_ranges) = 1
       /\ Len(env.all_ranges[1]) = 1
       /\ (pc = "done" => Len(rows) = 12)

\* the taxable income of an annual gross: the gross less 75000, not below 0
TaxableOf(annual_gross) ==
    IF Lt(Rs(75000), annual_gross) THEN Sub(annual_gross, Rs(75000)) ELSE Zero

\* C3: taxable income up to 400000 has tax_before_rebate 0; with taxable
\* income up to 1275000 and tax_before_rebate up to 75000 the rebate is the
\* whole tax and tax_after_rebate, cess and total_tax_liability are 0; with
\* taxable income above 1275000 the rebate is 0.
C3_ZeroRateAndRebate ==
    call.fn = "compute_income_tax_new_regime" =>
        LET t   == call.result
            inc == TaxableOf(call.annual_gross)
        IN  /\ (Le(inc, Rs(400000)) => t.tax_before_rebate = Zero)
            /\ (Le(inc, Rs(1275000)) /\ Le(t.tax_before_rebate, Rs(75000))
                   => /\ t.rebate_applied = t.tax_before_rebate
                      /\ t.tax_after_rebate = Zero
                      /\ t.cess = Zero
                      /\ t.total_tax_liability = Zero)
            /\ (Lt(Rs(1275000), inc) => t.rebate_applied = Zero)

\* a call at the rebate threshold: taxable income 1275000, a tax of 71250
\* that the rebate takes whole
C3_Witness ==
    /\ call.fn = "compute_income_tax_new_regime"
    /\ TaxableOf(call.annual_gross) = Rs(1275000)
    /\ call.result.tax_before_rebate = Rs(71250)
    /\ call.result.rebate_applied = Rs(71250)
    /\ call.result.total_tax_liability = Zero

RECURSIVE SumGrossHalfPaise(_)
SumGrossHalfPaise(rs) ==
    IF rs = <<>> THEN 0 ELSE HalfPaise(rs[1].Gross) + SumGrossHalfPaise(Tail(rs))

SaysYes(field) == field.given /\ Upper(Strip(field.text)) = <<"Y","E","S">>

\* C5: annual_gross_with_all, the income the tax is computed on, is the sum
\* of the twelve Gross values plus the encashment plus the allowance; the
\* encashment is 0 unless the leave_encashment field says YES (in any case,
\* blanks aside) and then half of the Dec-2025 row's Gross.
C5_TotalIncome ==
    pc = "done" =>
        LET el    == result.el_encashment_amount
            total == result.annual_gross_with_all
        IN  /\ Len(rows) = 12
            /\ rows[10].Month = <<"D","e","c","-","2","0","2","5">>
            /\ IsHalfPaise(el) /\ IsHalfPaise(total) /\ IsPaise(env.allowance)
            /\ \A i \in 1..12 : IsPaise(rows[i].Gross)
            /\ IF SaysYes(data.leave_encashment)
               THEN 2 * HalfPaise(el) = HalfPaise(rows[10].Gross)
               ELSE el = Zero
            /\ HalfPaise(total) =
                  SumGrossHalfPaise(rows) + HalfPaise(el) + HalfPaise(env.allowance)
            /\ result.tax_summary.taxable_income = TaxableOf(total)

\* a finished run with YES, an allowance and an encashment of half a paisa's grain
C5_Witness ==
    /\ pc = "done"
    /\ SaysYes(data.leave_encashment)
    /\ data.leave_encashment.text # <<"Y","E","S">>
    /\ env.allowance # Zero
    /\ Lt(Zero, result.el_encashment_amount)
    /\ ~IsPaise(result.el_encashment_amount)

\* C6: every tax summary has total_tax_liability = tax_after_rebate + cess,
\* tax_after_rebate = max(0, tax_before_rebate - rebate_applied), cess = 4%
\* of tax_after_rebate, taxable_income = max(0, annual gross - 75000) and
\* 0 <= rebate_applied <= min(75000, tax_before_rebate).
C6_TaxSummaryInvariants ==
    call.fn = "compute_income_tax_new_regime" =>
        LET t == call.result
        IN  /\ Sub(t.total_tax_liability, t.cess) = t.tax_after_rebate
            /\ IF Lt(t.rebate_applied, t.tax_before_rebate)
               THEN Add(t.tax_after_rebate, t.rebate_applied) = t.tax_before_rebate
               ELSE t.tax_after_rebate = Zero
            /\ MulRatio(t.cess, 25, 1) = [val |-> t.tax_after_rebate, cut |-> 0]
            /\ t.taxable_income = TaxableOf(call.annual_gross)
            /\ Le(Zero, t.rebate_applied)
            /\ Le(t.rebate_applied, Rs(75000))
            /\ Le(t.rebate_applied, t.tax_before_rebate)

\* a call above the rebate threshold whose cess is not a whole number of paise
C6_Witness ==
    /\ call.fn = "compute_income_tax_new_regime"
    /\ Lt(Rs(1275000), call.result.taxable_income)
    /\ Lt(Zero, call.result.cess)
    /\ ~IsPaise(call.result.cess)
    /\ call.result.rebate_applied = Zero

\* the months with the DA rate 0.1475
LaterMonths == { MONTHS[i] : i \in 5..12 }

\* C7: in every monthly row Gross = Basic + DA + HRA + CCA + Medical; a row
\* with Basic 30000 at the DA rate 0.1475, city grade C and a group other
\* than A and B has Gross 30000 + 4425 + 2250 + 0 + 500 = 37175.
C7_GrossIsSumOfComponents ==
    InLoop =>
        \A i \in 1..Len(rows) :
            LET r == rows[i]
            IN  /\ IsPaise(r.Basic) /\ IsPaise(r.DA) /\ IsPaise(r.HRA)
                /\ IsPaise(r.CCA) /\ IsPaise(r.Medical) /\ IsPaise(r.Gross)
                /\ Paise(r.Gross) = Paise(r.Basic) + Paise(r.DA) + Paise(r.HRA)
                                      + Paise(r.CCA) + Paise(r.Medical)
                /\ (/\ r.Basic = Rs(30000)
                    /\ r.Month \in LaterMonths
                    /\ env.city_grade = <<"C">>
                    /\ env.group \notin {<<"A">>, <<"B">>})
                   => /\ r.DA = Rs(4425) /\ r.HRA = Rs(2250)
                      /\ r.CCA = Zero /\ r.Medical = Rs(500)
                      /\ r.Gross = Rs(37175)

\* a finished run with the row of the example
C7_Witness ==
    /\ pc = "done"
    /\ env.city_grade = <<"C">>
    /\ env.group \notin {<<"A">>, <<"B">>}
    /\ rows[12].Basic = Rs(30000)
    /\ rows[12].Gross = Rs(37175)

\* whether a parse_month result names the month
Names(target, month) == ~target.none /\ target.val = month

\* C8: the rows are the months Mar-2025 .. Feb-2026 in order, one row each;
\* a row's Basic is the previous row's (the submitted basic for the first)
\* after one Scale Lookup if the month is the increment month and one more,
\* on the incremented basic, if it is the time-bound month; in any other
\* month it is the previous Basic, and a month that is empty or outside the
\* twelve causes no increment.
C8_IncrementOnlyInItsMonth ==
    InLoop =>
        /\ Len(rows) <= 12
        /\ (pc = "done" => Len(rows) = 12)
        /\ current_basic = (IF rows = <<>> THEN env.basic_salary ELSE rows[Len(rows)].Basic)
        /\ \A i \in 1..Len(rows) :
              LET prev == IF i = 1 THEN env.basic_salary ELSE rows[i - 1].Basic
                  once == ScaleLookup(prev, env.all_ranges).salary
                  a    == Names(env.increment_month, MONTHS[i])
                  b    == Names(env.timebond_from_month, MONTHS[i])
              IN  /\ rows[i].Month = MONTHS[i]
                  /\ rows[i].Basic =
                        (IF a /\ b THEN ScaleLookup(once, env.all_ranges).salary
                         ELSE IF a \/ b THEN once
                         ELSE prev)
        /\ ( /\ \A i \in 1..12 : ~Names(env.increment_month, MONTHS[i])
             /\ \A i \in 1..12 : ~Names(env.timebond_from_month, MONTHS[i]) )
           => \A i \in 1..Len(rows) : rows[i].Basic = env.basic_salary

\* a finished run whose increment month and time-bound month are both
\* Jul-2025 and whose second Scale Lookup added to the first
C8_Witness ==
    /\ pc = "done"
    /\ Names(env.increment_month, MONTHS[5])
    /\ Names(env.timebond_from_month, MONTHS[5])
    /\ rows[4].Basic = env.basic_salary
    /\ Lt(ScaleLookup(rows[4].Basic, env.all_ranges).salary, rows[5].Basic)
    /\ rows[12].Basic = rows[5].Basic

\* the rate of the latest DA_RATES entry on or before the month, 0 when the
\* month is before every entry
LatestRate(month_str) ==
    LET dt      == strptime(month_str).dt
        entries == { i \in 1..Len(DA_RATES) : DtGe(dt, strptime(DA_RATES[i][1]).dt) }
        latest  == CHOOSE i \in entries :
                      \A j \in entries :
                          DtGe(strptime(DA_RATES[i][1]).dt, strptime(DA_RATES[j][1]).dt)
    IN  IF entries = {} THEN 0 ELSE DA_RATES[latest][2]

\* the part of C9 that is about get_da_rate_for_month and the rates of the
\* twelve months
RatesOfTheYear ==
    \A i \in 1..12 : get_da_rate_for_month(MONTHS[i]) = (IF i <= 4 THEN 1275 ELSE 1475)

DaRateIsLatest ==
    /\ call.fn = "get_da_rate_for_month" =>
          call.result = LatestRate(call.month_str)
    /\ RatesOfTheYear

\* C9 as amended: get_da_rate_for_month returns the rate of the latest
\* DA_RATES entry on or before the month and 0 before every entry, which is
\* 0.1275 for Mar-2025 .. Jun-2025 and 0.1475 for Jul-2025 .. Feb-2026, and
\* each row's DA is the row's Basic times that rate rounded to the nearest
\* paisa (two decimals).
C9_DaIsRoundedProduct ==
    /\ DaRateIsLatest
    /\ InLoop =>
          \A i \in 1..Len(rows) :
              IsRounded(rows[i].DA, rows[i].Basic, IF i <= 4 THEN 1275 ELSE 1475)

\* C9 as claimed: the same, with each row's DA the row's Basic times the
\* month's rate itself.
C9_DaIsExactProduct ==
    /\ DaRateIsLatest
    /\ InLoop =>
          \A i \in 1..Len(rows) :
              IsExact(rows[i].DA, rows[i].Basic, IF i <= 4 THEN 1275 ELSE 1475)

\* a finished run with a DA at each rate, the first one rounded: not the
\* product itself
C9_Witness ==
    /\ pc = "done"
    /\ IsRounded(rows[1].DA, rows[1].Basic, 1275)
    /\ ~IsExact(rows[1].DA, rows[1].Basic, 1275)
    /\ IsRounded(rows[12].DA, rows[12].Basic, 1475)
    /\ ~IsRounded(rows[12].DA, rows[12].Basic, 1275)

\* a submitted field trimmed and in upper case ("" when absent)
Submitted(field) == IF field.given THEN Upper(Strip(field.text)) ELSE <<>>

GradeRate(grade) ==
    IF grade = <<"A">> THEN 2000
    ELSE IF grade = <<"B">> THEN 1500
    ELSE IF grade = <<"C">> THEN 750
    ELSE 0

\* the part of C10 that is about CCA, Medical and the matching of grade and
\* group
AllowancesByGradeAndGroup ==
    InLoop =>
        \A i \in 1..Len(rows) :
            /\ rows[i].CCA = (IF Submitted(data.city_grade) \in {<<"A">>, <<"B">>}
                              THEN Rs(600) ELSE Zero)
            /\ rows[i].Medical = (IF Submitted(data.group) \in {<<"A">>, <<"B">>}
                                  THEN Zero ELSE Rs(500))

\* C10 as amended: in every row HRA is the row's Basic times the rate of the
\* submitted city grade (A 0.20, B 0.15, C 0.075, any other grade 0) rounded
\* to the nearest paisa; CCA is 600 for the grades A and B and 0 otherwise;
\* Medical is 0 for the groups A and B and 500 otherwise; grade and group
\* are matched trimmed and in upper case, the same way in all rows of a run.
C10_HraIsRoundedProduct ==
    /\ AllowancesByGradeAndGroup
    /\ InLoop =>
          \A i \in 1..Len(rows) :
              IsRounded(rows[i].HRA, rows[i].Basic, GradeRate(Submitted(data.city_grade)))

\* C10 as claimed: the same, with HRA the row's Basic times the rate itself.
C10_HraIsExactProduct ==
    /\ AllowancesByGradeAndGroup
    /\ InLoop =>
          \A i \in 1..Len(rows) :
              IsExact(rows[i].HRA, rows[i].Basic, GradeRate(Submitted(data.city_grade)))

\* a finished run for the grade " b " and the group " a": HRA at 0.15, CCA
\* 600, Medical 0 in the first and the last row
C10_Witness ==
    /\ pc = "done"
    /\ data.city_grade.text = <<" ","b"," ">>
    /\ data.group.text = <<" ","a">>
    /\ \A i \in {1, 12} :
          /\ IsExact(rows[i].HRA, rows[i].Basic, 1500)
          /\ rows[i].CCA = Rs(600)
          /\ rows[i].Medical = Zero

=============================================================================
